---------------------------- MODULE Spec2Model ----------------------------
(***************************************************************************)
(* Blindfold-Chess: the move generator and target selector of              *)
(* services/chessLogic (src/unnamed/part_003) and the drill state machine  *)
(* of App (src/unnamed/part_001).                                          *)
(*                                                                         *)
(* Three specifications share the module:                                  *)
(*   SpecMoves   getLegalMoves / canPieceReach applied to bounded inputs   *)
(*   SpecTarget  generateTargetSquare applied to bounded inputs            *)
(*   Spec        the App: UI events and timer callbacks                    *)
(***************************************************************************)
EXTENDS Integers, Sequences, FiniteSets, TLC

VARIABLES
    state,            \* App: the GameState of useState<GameState>
    isPaused,         \* App: useState(false)
    isProcessing,     \* App: useState(false), the input lock
    disabledOptions,  \* App: the piece kinds struck out since the last hit
    moveFeedback,     \* App: {type, status} of the selection being shown
    countdown,        \* App: null, or 3, 2, 1, 0
    pendingMove,      \* App: the 500 ms timeout of a correct selection
    pendingUnlock,    \* App: the 400 ms timeout of an incorrect selection
    args,             \* inputs of the chessLogic function under test
    ret               \* what the function returned

appVars == <<state, isPaused, isProcessing, disabledOptions, moveFeedback,
             countdown, pendingMove, pendingUnlock>>
vars == <<state, isPaused, isProcessing, disabledOptions, moveFeedback,
          countdown, pendingMove, pendingUnlock, args, ret>>

(***************************************************************************)
(* Program constants                                                       *)
(***************************************************************************)
\* Board side: row = floor(square / 8), col = square % 8.
BOARD_SIZE == 8
\* Math.floor(Math.random() * 64): the number of squares.
NUM_SQUARES == 64
\* JavaScript null (targetSquare: number | null).  Squares are 0..63 and the
\* "no target" sentinel is -1, so -2 is free to stand for null.
Null == -2
\* generateTargetSquare's "Stalemate / No moves possible" result.
NO_TARGET == -1

Squares == 0 .. (NUM_SQUARES - 1)

\* PieceType of types.ts.
PieceTypes == {"QUEEN", "ROOK", "BISHOP", "KNIGHT", "KING", "PAWN"}

(***************************************************************************)
(* Array helpers (JavaScript Array.prototype)                              *)
(***************************************************************************)
\* arr.includes(x)
Includes(arr, x) == \E i \in DOMAIN arr : arr[i] = x

\* [...new Set(arr)]: duplicates dropped, first occurrences kept in order.
\* DedupRange does it for arr[lo .. hi], the second half after the first.
RECURSIVE DedupRange(_, _, _)
DedupRange(arr, lo, hi) ==
    IF lo > hi THEN <<>>
    ELSE IF lo = hi THEN <<arr[lo]>>
    ELSE LET mid   == (lo + hi) \div 2
             first == DedupRange(arr, lo, mid)
             rest  == DedupRange(arr, mid + 1, hi)
         IN  first \o SelectSeq(rest, LAMBDA x : ~Includes(first, x))

Dedup(arr) == DedupRange(arr, 1, Len(arr))

RECURSIVE Concat(_)
Concat(seqs) ==
    IF seqs = <<>> THEN <<>> ELSE Head(seqs) \o Concat(Tail(seqs))

Range(arr) == {arr[i] : i \in DOMAIN arr}

\* Number(x) for the values a square can hold: null converts to 0.
ToNumber(x) == IF x = Null THEN 0 ELSE x

(***************************************************************************)
(* getLegalMoves (part_003:3-58)                                           *)
(***************************************************************************)
OnBoard(r, c) == r >= 0 /\ r < BOARD_SIZE /\ c >= 0 /\ c < BOARD_SIZE

\* Mutant: the column is not checked, so a step off a side wraps.
addIfOnBoard_NoColumnCheck(r, c) ==
    IF r >= 0 /\ r < BOARD_SIZE THEN r * BOARD_SIZE + c ELSE Null

\* addIfOnBoard: the square of (r, c), or null off the board.
addIfOnBoard(r, c) == IF OnBoard(r, c) THEN r * BOARD_SIZE + c ELSE Null

\* Mutant: the last offset mistyped as (2, 2).
knightOffsets_Typo ==
    << <<-2, -1>>, <<-2, 1>>, <<-1, -2>>, <<-1, 2>>,
       <<1, -2>>, <<1, 2>>, <<2, -1>>, <<2, 2>> >>

knightOffsets ==
    << <<-2, -1>>, <<-2, 1>>, <<-1, -2>>, <<-1, 2>>,
       <<1, -2>>, <<1, 2>>, <<2, -1>>, <<2, 1>> >>

\* The KING case's double loop, dr outer and dc inner, (0,0) skipped.
kingOffsets ==
    << <<-1, -1>>, <<-1, 0>>, <<-1, 1>>, <<0, -1>>,
       <<0, 1>>, <<1, -1>>, <<1, 0>>, <<1, 1>> >>

rookDirections   == << <<-1, 0>>, <<1, 0>>, <<0, -1>>, <<0, 1>> >>
bishopDirections == << <<-1, -1>>, <<-1, 1>>, <<1, -1>>, <<1, 1>> >>
queenDirections  == rookDirections \o bishopDirections

\* The while loop of addSlidingMoves for one direction, from (r, c): push the
\* square, stop after a blocker, else step on.
RECURSIVE slideFrom(_, _, _, _, _)
slideFrom(r, c, dr, dc, blockers) ==
    IF ~OnBoard(r, c) THEN <<>>
    ELSE LET targetSquare == r * BOARD_SIZE + c
         IN  IF Includes(blockers, targetSquare)
             THEN <<targetSquare>>
             ELSE <<targetSquare>> \o slideFrom(r + dr, c + dc, dr, dc, blockers)

\* Mutant: the blockers are not consulted, so a ray runs to the board edge.
addSlidingMoves_ThroughBlockers(row, col, directions, blockers) ==
    Concat([i \in DOMAIN directions |->
              slideFrom(row + directions[i][1], col + directions[i][2],
                        directions[i][1], directions[i][2], <<>>)])

\* addSlidingMoves: the directions in order, each from the adjacent square.
addSlidingMoves(row, col, directions, blockers) ==
    Concat([i \in DOMAIN directions |->
              slideFrom(row + directions[i][1], col + directions[i][2],
                        directions[i][1], directions[i][2], blockers)])

\* The KNIGHT and KING cases: each offset kept if addIfOnBoard is not null.
addOffsetMoves(row, col, offsets) ==
    LET targets == [i \in DOMAIN offsets |->
                      addIfOnBoard(row + offsets[i][1], col + offsets[i][2])]
    IN  SelectSeq(targets, LAMBDA t : t # Null)

getLegalMoves(square, type, blockers) ==
    LET row == ToNumber(square) \div BOARD_SIZE
        col == ToNumber(square) % BOARD_SIZE
        moves ==
            CASE type = "KNIGHT" -> addOffsetMoves(row, col, knightOffsets)
              [] type = "ROOK"   -> addSlidingMoves(row, col, rookDirections, blockers)
              [] type = "BISHOP" -> addSlidingMoves(row, col, bishopDirections, blockers)
              [] type = "QUEEN"  -> addSlidingMoves(row, col, queenDirections, blockers)
              [] type = "KING"   -> addOffsetMoves(row, col, kingOffsets)
              [] OTHER           -> <<>>
    IN  Dedup(moves)

(***************************************************************************)
(* canPieceReach (part_003:60-63)                                          *)
(***************************************************************************)
\* pieces.map(p => p.square)
SquaresOf(pieces) == [i \in DOMAIN pieces |-> pieces[i].square]

\* Mutant: the other pieces are not passed on as blockers.
canPieceReach_NoBlockers(from, to, type, pieces) ==
    Includes(getLegalMoves(from, type, <<>>), to)

canPieceReach(from, to, type, pieces) ==
    LET blockers == SelectSeq(SquaresOf(pieces), LAMBDA sq : sq # from)
    IN  Includes(getLegalMoves(from, type, blockers), to)

(***************************************************************************)
(* Math.random()                                                           *)
(*                                                                         *)
(* A draw is the value num/den in [0, 1).  roundsUp marks a draw so close  *)
(* to 1 that, in the weighted walk of generateTargetSquare, the floating   *)
(* point subtractions never bring `random` below an entry's weight (the    *)
(* accumulated total and the successive differences round differently):    *)
(* the walk then ends without returning from inside the loop.              *)
(***************************************************************************)
\* Math.floor(Math.random() * n)
RandomIndex(rnd, n) == (rnd.num * n) \div rnd.den

(***************************************************************************)
(* generateTargetSquare (part_003:73-153)                                  *)
(*                                                                         *)
(* Weights are kept in tenths (1.0 is 10, 0.3 is 3, 0.6 is 6).  No weight  *)
(* 10 - 3c - 6l is 0 for integers c and l in {0, 1}, so the clamp and the  *)
(* "moved twice in a row" rule are the only ways to weight 0, as in the    *)
(* floating point computation.                                             *)
(***************************************************************************)
\* Mutant: occupied squares are not filtered out of the legal moves.
validMoves_KeepsOccupied(pieces, i) ==
    LET p        == pieces[i]
        blockers == SelectSeq(SquaresOf(pieces), LAMBDA sq : sq # p.square)
    IN  getLegalMoves(p.square, p.type, blockers)

\* Mutant: the filter is inverted and keeps the occupied squares only.
validMoves_OnlyOccupied(pieces, i) ==
    LET p        == pieces[i]
        blockers == SelectSeq(SquaresOf(pieces), LAMBDA sq : sq # p.square)
        moves    == getLegalMoves(p.square, p.type, blockers)
    IN  SelectSeq(moves, LAMBDA m : Includes(SquaresOf(pieces), m))

\* Step 1, one piece: its legal moves with the other pieces as blockers,
\* filtered to squares no piece occupies.
validMoves(pieces, i) ==
    LET p        == pieces[i]
        blockers == SelectSeq(SquaresOf(pieces), LAMBDA sq : sq # p.square)
        moves    == getLegalMoves(p.square, p.type, blockers)
    IN  SelectSeq(moves, LAMBDA m : ~Includes(SquaresOf(pieces), m))

\* The values of the pieceMoves map in insertion (piece) order.
pieceMoves(pieces) == [i \in DOMAIN pieces |-> validMoves(pieces, i)]

\* squareReachCounts.get(sq): one increment per piece whose valid moves hold sq.
squareReachCount(moveLists, sq) ==
    Cardinality({i \in DOMAIN moveLists : Includes(moveLists[i], sq)})

\* squareReacher.get(sq): the id of the first piece found to reach sq.
squareReacher(pieces, moveLists, sq) ==
    LET first == CHOOSE i \in DOMAIN moveLists :
                    /\ Includes(moveLists[i], sq)
                    /\ \A j \in 1 .. (i - 1) : ~Includes(moveLists[j], sq)
    IN  pieces[first].id

\* Mutant: a square counts as a unique target when any piece reaches it.
uniqueTargetsOf_AnyCount(moveLists) ==
    SelectSeq(Dedup(Concat(moveLists)),
              LAMBDA sq : squareReachCount(moveLists, sq) >= 1)

\* Step 2: the keys of squareReachCounts in insertion order whose count is 1.
uniqueTargetsOf(moveLists) ==
    SelectSeq(Dedup(Concat(moveLists)),
              LAMBDA sq : squareReachCount(moveLists, sq) = 1)

\* Mutant: the penalty for the very last piece moved is left out.
pieceWeight_NoLastPenalty(id, history) ==
    LET historyCount == Cardinality({k \in DOMAIN history : history[k] = id})
        n            == Len(history)
        afterCount   == 10 - historyCount * 3
        weight       == IF n >= 2 /\ history[n] = id /\ history[n - 1] = id
                        THEN 0 ELSE afterCount
    IN  IF weight > 0 THEN weight ELSE 0

\* Mutant: only the count in history lowers the weight; both recency rules
\* are left out.
pieceWeight_CountOnly(id, history) ==
    LET historyCount == Cardinality({k \in DOMAIN history : history[k] = id})
        weight       == 10 - historyCount * 3
    IN  IF weight > 0 THEN weight ELSE 0

\* Step 3, one piece: the weight stored in pieceWeights, in tenths.
pieceWeight(id, history) ==
    LET historyCount == Cardinality({k \in DOMAIN history : history[k] = id})
        n            == Len(history)
        afterCount   == 10 - historyCount * 3
        afterLast    == IF n > 0 /\ history[n] = id
                        THEN afterCount - 6 ELSE afterCount
        weight       == IF n >= 2 /\ history[n] = id /\ history[n - 1] = id
                        THEN 0 ELSE afterLast
    IN  IF weight > 0 THEN weight ELSE 0

\* The pieceWeights map, in piece order.
pieceWeights(pieces, history) ==
    [i \in DOMAIN pieces |-> pieceWeight(pieces[i].id, history)]

\* Step 4: the weighted pool, one {sq, weight} entry per unique target, the
\* weight that of the square's recorded reacher.
weightedPoolOf(pieces, moveLists, uniqueTargets, history) ==
    [k \in DOMAIN uniqueTargets |->
        [sq     |-> uniqueTargets[k],
         weight |-> pieceWeight(squareReacher(pieces, moveLists, uniqueTargets[k]),
                                history)]]

\* weightedPool.reduce((sum, item) => sum + item.weight, 0), over pool[lo .. hi].
RECURSIVE SumRange(_, _, _)
SumRange(pool, lo, hi) ==
    IF lo > hi THEN 0
    ELSE IF lo = hi THEN pool[lo].weight
    ELSE LET mid == (lo + hi) \div 2
         IN  SumRange(pool, lo, mid) + SumRange(pool, mid + 1, hi)

SumWeights(pool) == SumRange(pool, 1, Len(pool))

\* Mutant: `random -= item.weight` is left out of the loop.
RECURSIVE walkPool_NoSubtract(_, _, _, _)
walkPool_NoSubtract(pool, k, random, den) ==
    IF k > Len(pool) THEN pool[1].sq
    ELSE IF random < pool[k].weight * den THEN pool[k].sq
    ELSE walkPool_NoSubtract(pool, k + 1, random, den)

\* The for loop over weightedPool from entry k on; `random` is scaled by den.
\* The loop ended: return weightedPool[0].sq.
RECURSIVE walkPool(_, _, _, _)
walkPool(pool, k, random, den) ==
    IF k > Len(pool) THEN pool[1].sq
    ELSE IF random < pool[k].weight * den THEN pool[k].sq
    ELSE walkPool(pool, k + 1, random - pool[k].weight * den, den)

\* let random = Math.random() * totalPoolWeight, and the walk.
weightedDraw(pool, totalPoolWeight, rnd) ==
    LET random == IF rnd.roundsUp THEN totalPoolWeight * rnd.den
                  ELSE rnd.num * totalPoolWeight
    IN  walkPool(pool, 1, random, rnd.den)

\* Mutant: without unique targets the function gives up at once.
generateTargetSquare_NoFallback(pieces, history, rnd) ==
    LET moveLists       == pieceMoves(pieces)
        uniqueTargets   == uniqueTargetsOf(moveLists)
        weightedPool    == weightedPoolOf(pieces, moveLists, uniqueTargets, history)
        totalPoolWeight == SumWeights(weightedPool)
    IN  IF Len(uniqueTargets) = 0 THEN NO_TARGET
        ELSE IF totalPoolWeight <= 0
        THEN uniqueTargets[RandomIndex(rnd, Len(uniqueTargets)) + 1]
        ELSE weightedDraw(weightedPool, totalPoolWeight, rnd)

generateTargetSquare(pieces, history, rnd) ==
    LET moveLists       == pieceMoves(pieces)
        uniqueTargets   == uniqueTargetsOf(moveLists)
        allMoves        == Concat(moveLists)
        weightedPool    == weightedPoolOf(pieces, moveLists, uniqueTargets, history)
        totalPoolWeight == SumWeights(weightedPool)
    IN  IF Len(uniqueTargets) = 0
        THEN IF Len(allMoves) = 0 THEN NO_TARGET
             ELSE allMoves[RandomIndex(rnd, Len(allMoves)) + 1]
        ELSE IF totalPoolWeight <= 0
        THEN uniqueTargets[RandomIndex(rnd, Len(uniqueTargets)) + 1]
        ELSE weightedDraw(weightedPool, totalPoolWeight, rnd)

(***************************************************************************)
(* App (part_001): initial state                                           *)
(***************************************************************************)
START_TIME  == 120
MAX_STRIKES == 5

\* The useState initial values of App.
AppInit ==
    /\ state = [phase         |-> "START",
                difficulty    |-> "EASY",
                pieces        |-> <<>>,
                targetSquare  |-> Null,
                score         |-> 0,
                strikes       |-> 0,
                timeLeft      |-> START_TIME,
                lastMoveLine  |-> <<>>,
                correctMoves  |-> 0,
                currentStreak |-> 0,
                bestStreak    |-> 0,
                moveHistory   |-> <<>>]
    /\ isPaused = FALSE
    /\ isProcessing = FALSE
    /\ disabledOptions = {}
    /\ moveFeedback = <<>>
    /\ countdown = Null
    /\ pendingMove = <<>>
    /\ pendingUnlock = FALSE

\* Math.random() is drawn from k/RandomSteps, k < RandomSteps, and the draw
\* next to 1 that leaves a rounding remainder.
DrawsOf(steps) ==
    {[num |-> k, den |-> steps, roundsUp |-> FALSE] : k \in 0 .. (steps - 1)}
    \cup {[num |-> steps - 1, den |-> steps, roundsUp |-> TRUE]}

RandomSteps == 3
Draws == DrawsOf(RandomSteps)

\* The draws followed in a drill.
DrillSteps == 2
DrillDraws == DrawsOf(DrillSteps)

\* `p-${i}`
PieceId(i) == "p-" \o ToString(i)

\* updatedHistory.length > 5
HISTORY_CAP == 5

NoCall == [fn |-> "none"]

(***************************************************************************)
(* App (part_001): startGame                                               *)
(***************************************************************************)
Difficulties == {"EASY", "INTERMEDIATE", "HARD"}

availableTypes == <<"QUEEN", "ROOK", "BISHOP", "KNIGHT">>

\* Mutant: the kinds are drawn independently, so a kind can repeat.
Shuffles_WithRepeats ==
    { <<"QUEEN", "KNIGHT", "QUEEN", "BISHOP">>,
      <<"BISHOP", "BISHOP", "KNIGHT", "QUEEN">> }

\* Outcomes of [...availableTypes].sort(() => Math.random() - 0.5): a bounded
\* set of the permutations.
Shuffles ==
    { <<"QUEEN", "KNIGHT", "ROOK", "BISHOP">>,
      <<"BISHOP", "ROOK", "KNIGHT", "QUEEN">> }

\* getRandomSquare(exclude): the squares the loop can end on.
getRandomSquare(exclude) == Squares \ Range(exclude)

\* The squares startGame's draws are followed on: successive draws of
\* getRandomSquare return the squares of this list in order.
StartSquareList == <<19, 0, 63, 9>>

\* usedSquares after pieceCount draws of getRandomSquare(usedSquares).
Placements(pieceCount) ==
    {usedSquares \in {SubSeq(StartSquareList, 1, pieceCount)} :
        \A i \in 1 .. pieceCount :
           usedSquares[i] \in getRandomSquare(SubSeq(usedSquares, 1, i - 1))}

pieceCountOf(diff) ==
    IF diff = "EASY" THEN 2 ELSE IF diff = "INTERMEDIATE" THEN 3 ELSE 4

startGame(diff) ==
    \E shuffledTypes \in Shuffles :
      LET pieceCount    == pieceCountOf(diff)
          selectedTypes == SubSeq(shuffledTypes, 1, pieceCount)
      IN  \E usedSquares \in Placements(pieceCount) :
            /\ isPaused' = FALSE
            /\ isProcessing' = FALSE
            /\ countdown' = Null
            /\ state' = [phase         |-> "OBSERVING",
                         difficulty    |-> diff,
                         pieces        |-> [i \in 1 .. pieceCount |->
                                              [id     |-> PieceId(i - 1),
                                               type   |-> selectedTypes[i],
                                               square |-> usedSquares[i]]],
                         targetSquare  |-> Null,
                         score         |-> 0,
                         strikes       |-> 0,
                         timeLeft      |-> START_TIME,
                         lastMoveLine  |-> <<>>,
                         correctMoves  |-> 0,
                         currentStreak |-> 0,
                         bestStreak    |-> 0,
                         moveHistory   |-> <<>>]
            /\ UNCHANGED <<disabledOptions, moveFeedback, pendingMove,
                           pendingUnlock, args, ret>>

\* The difficulty buttons of the start screen.
StartGame ==
    /\ state.phase = "START"
    /\ \E diff \in Difficulties : startGame(diff)

\* The pause overlay and the game-over screen show Restart and Home.
MenuShown ==
    \/ state.phase \in {"OBSERVING", "PLAYING"} /\ isPaused
    \/ state.phase = "GAMEOVER"

RestartCurrentDrill ==
    /\ MenuShown
    /\ startGame(state.difficulty)

GoHome ==
    /\ MenuShown
    /\ isPaused' = FALSE
    /\ isProcessing' = FALSE
    /\ state' = [state EXCEPT !.phase = "START"]
    /\ UNCHANGED <<disabledOptions, moveFeedback, countdown, pendingMove,
                   pendingUnlock, args, ret>>

(***************************************************************************)
(* App: countdown, pause, clock                                            *)
(*                                                                         *)
(* Timers fire in the order of their deadlines.  A 400 or 500 ms timeout   *)
(* is always set before beginDrill is clicked (a selection needs PLAYING,  *)
(* the countdown needs a new OBSERVING), so it fires before the 1000 ms    *)
(* countdown step set after it.                                            *)
(***************************************************************************)
NoTimeoutPending == pendingMove = <<>> /\ ~pendingUnlock

\* The Begin button: OBSERVING and no countdown on screen.
BeginDrill ==
    /\ state.phase = "OBSERVING"
    /\ countdown = Null
    /\ countdown' = 3
    /\ UNCHANGED <<state, isPaused, isProcessing, disabledOptions, moveFeedback,
                   pendingMove, pendingUnlock, args, ret>>

\* The countdown effect: a 1000 ms step, and at 0 the move to PLAYING with
\* the first target.
CountdownStep ==
    /\ countdown # Null
    /\ countdown > 0
    /\ NoTimeoutPending
    /\ countdown' = countdown - 1
    /\ IF countdown - 1 = 0 /\ state.phase = "OBSERVING"
       THEN \E rnd \in DrillDraws :
              state' = [state EXCEPT
                          !.phase = "PLAYING",
                          !.targetSquare =
                              generateTargetSquare(state.pieces, state.moveHistory, rnd),
                          !.lastMoveLine = <<>>]
       ELSE UNCHANGED state
    /\ UNCHANGED <<isPaused, isProcessing, disabledOptions, moveFeedback,
                   pendingMove, pendingUnlock, args, ret>>

\* clearCountdown: 800 ms after the countdown reached 0.
ClearCountdown ==
    /\ countdown = 0
    /\ countdown' = Null
    /\ UNCHANGED <<state, isPaused, isProcessing, disabledOptions, moveFeedback,
                   pendingMove, pendingUnlock, args, ret>>

TogglePause ==
    /\ state.phase = "PLAYING"
    /\ isPaused' = ~isPaused
    /\ UNCHANGED <<state, isProcessing, disabledOptions, moveFeedback, countdown,
                   pendingMove, pendingUnlock, args, ret>>

\* Mutant: the callback ends the drill one second late.
timerCallback_OneSecondLate(prev) ==
    IF prev.timeLeft <= 0
    THEN [prev EXCEPT !.timeLeft = 0, !.phase = "GAMEOVER"]
    ELSE [prev EXCEPT !.timeLeft = prev.timeLeft - 1]

\* One run of the setInterval callback.
timerCallback(prev) ==
    IF prev.timeLeft <= 1
    THEN [prev EXCEPT !.timeLeft = 0, !.phase = "GAMEOVER"]
    ELSE [prev EXCEPT !.timeLeft = prev.timeLeft - 1]

\* n runs of the callback in a row: while more than one second is left each
\* run takes the else branch, and the run at one second left ends the game.
timerCallbacks(prev, n) ==
    IF n < prev.timeLeft
    THEN [prev EXCEPT !.timeLeft = prev.timeLeft - n]
    ELSE timerCallback([prev EXCEPT !.timeLeft = 1])

\* Single clock ticks are followed for the first MaxSlowTicks seconds of a
\* drill; after that the clock is followed to its last second in one step.
MaxSlowTicks == 1

\* The interval runs while PLAYING and not paused, its first callback 1000 ms
\* after PLAYING began and so after clearCountdown.  n callbacks in a row with
\* no other event between them: one, or all but the last (no timeout can be
\* pending over several seconds).
ClockTicks ==
    /\ state.phase = "PLAYING"
    /\ ~isPaused
    /\ countdown # 0
    /\ \E n \in {1, state.timeLeft - 1} :
          /\ n >= 1
          /\ n = 1 => \/ state.timeLeft <= 1
                      \/ START_TIME - state.timeLeft < MaxSlowTicks
          /\ n > 1 => NoTimeoutPending
          /\ state' = timerCallbacks(state, n)
    /\ UNCHANGED <<isPaused, isProcessing, disabledOptions, moveFeedback, countdown,
                   pendingMove, pendingUnlock, args, ret>>

(***************************************************************************)
(* App: handlePieceSelect                                                  *)
(***************************************************************************)
\* Mutant: the kind of the piece is not compared with the selection.
findValidPiece_AnyKind(pieces, type, targetSquare) ==
    LET hits == {i \in DOMAIN pieces :
                    canPieceReach(pieces[i].square, targetSquare, pieces[i].type, pieces)}
    IN  IF hits = {} THEN 0 ELSE CHOOSE i \in hits : \A j \in hits : i <= j

\* state.pieces.find(p => p.type === type && canPieceReach(...)): the index
\* of the first such piece, 0 for undefined.
findValidPiece(pieces, type, targetSquare) ==
    LET hits == {i \in DOMAIN pieces :
                    /\ pieces[i].type = type
                    /\ canPieceReach(pieces[i].square, targetSquare, pieces[i].type, pieces)}
    IN  IF hits = {} THEN 0 ELSE CHOOSE i \in hits : \A j \in hits : i <= j

\* A drill is followed for MaxMoves correct selections (maxMoves below).
MaxMoves == 2

\* The option buttons: one per kind present among the pieces, rendered with
\* `disabled`.
OptionTypes == {"QUEEN", "ROOK", "BISHOP", "KNIGHT"}
isUsedInSession(type) == \E i \in DOMAIN state.pieces : state.pieces[i].type = type
isDisabled(type) ==
    type \in disabledOptions \/ isPaused \/ state.phase = "OBSERVING" \/ isProcessing

\* Mutant: the strike is counted and the streak is kept.
strikeUpdater_KeepsStreak(prev) ==
    LET newStrikes == prev.strikes + 1
    IN  IF newStrikes >= MAX_STRIKES
        THEN [prev EXCEPT !.strikes = newStrikes, !.phase = "GAMEOVER"]
        ELSE [prev EXCEPT !.strikes = newStrikes]

\* The updater of an incorrect selection.
strikeUpdater(prev) ==
    LET newStrikes == prev.strikes + 1
    IN  IF newStrikes >= MAX_STRIKES
        THEN [prev EXCEPT !.strikes = newStrikes,
                          !.phase = "GAMEOVER",
                          !.currentStreak = 0]
        ELSE [prev EXCEPT !.strikes = newStrikes,
                          !.currentStreak = 0]

\* Mutant: the input lock is never taken.
lockInput_Forgotten == FALSE

\* setIsProcessing(true); // LOCK INPUT
lockInput == TRUE

handlePieceSelect(maxMoves) ==
    \E type \in OptionTypes :
      /\ state.phase \in {"OBSERVING", "PLAYING"}
      /\ isUsedInSession(type)
      /\ ~isDisabled(type)
      /\ ~(state.phase # "PLAYING" \/ isPaused \/ state.targetSquare = Null \/ isProcessing)
      /\ LET validPiece == findValidPiece(state.pieces, type, state.targetSquare)
         IN  IF validPiece # 0
             THEN /\ state.correctMoves < maxMoves
                  /\ isProcessing' = lockInput
                  /\ moveFeedback' = <<[type |-> type, status |-> "correct"]>>
                  /\ disabledOptions' = {}
                  /\ pendingMove' = <<[id     |-> state.pieces[validPiece].id,
                                       square |-> state.pieces[validPiece].square]>>
                  /\ UNCHANGED <<state, pendingUnlock>>
             ELSE /\ isProcessing' = lockInput
                  /\ moveFeedback' = <<[type |-> type, status |-> "incorrect"]>>
                  /\ pendingUnlock' = TRUE
                  /\ disabledOptions' = disabledOptions \cup {type}
                  /\ state' = strikeUpdater(state)
                  /\ UNCHANGED pendingMove
      /\ UNCHANGED <<isPaused, countdown, args, ret>>

HandlePieceSelect == handlePieceSelect(MaxMoves)

\* Mutant: the history is appended to and never shifted.
updatedHistoryOf_NoShift(moveHistory, id) == Append(moveHistory, id)

\* const updatedHistory = [...prev.moveHistory, validPiece.id];
\* if (updatedHistory.length > 5) updatedHistory.shift();
updatedHistoryOf(moveHistory, id) ==
    LET appended == Append(moveHistory, id)
    IN  IF Len(appended) > HISTORY_CAP THEN Tail(appended) ELSE appended

\* Mutant: the next target is generated from the positions before the move.
nextTargetOf_OldPositions(prevPieces, updatedPieces, updatedHistory, rnd) ==
    generateTargetSquare(prevPieces, updatedHistory, rnd)

\* const nextTarget = generateTargetSquare(updatedPieces, updatedHistory);
nextTargetOf(prevPieces, updatedPieces, updatedHistory, rnd) ==
    generateTargetSquare(updatedPieces, updatedHistory, rnd)

\* The 500 ms timeout of a correct selection, validPiece as captured then.
ResolveMove ==
    /\ pendingMove # <<>>
    /\ LET validPiece     == pendingMove[1]
           userMoveFrom   == validPiece.square
           userMoveTo     == state.targetSquare
           updatedPieces  == [i \in DOMAIN state.pieces |->
                                IF state.pieces[i].id = validPiece.id
                                THEN [state.pieces[i] EXCEPT !.square = userMoveTo]
                                ELSE state.pieces[i]]
           updatedHistory == updatedHistoryOf(state.moveHistory, validPiece.id)
           newStreak      == state.currentStreak + 1
       IN  \E rnd \in DrillDraws :
             state' = [state EXCEPT
                         !.score = state.score + 10,
                         !.pieces = updatedPieces,
                         !.moveHistory = updatedHistory,
                         !.lastMoveLine = <<userMoveFrom, userMoveTo>>,
                         !.targetSquare =
                             nextTargetOf(state.pieces, updatedPieces,
                                          updatedHistory, rnd),
                         !.correctMoves = state.correctMoves + 1,
                         !.currentStreak = newStreak,
                         !.bestStreak = IF state.bestStreak > newStreak
                                        THEN state.bestStreak ELSE newStreak]
    /\ moveFeedback' = <<>>
    /\ isProcessing' = FALSE
    /\ pendingMove' = <<>>
    /\ UNCHANGED <<isPaused, disabledOptions, countdown, pendingUnlock, args, ret>>

\* The 400 ms timeout of an incorrect selection.
ResolveUnlock ==
    /\ pendingUnlock
    /\ moveFeedback' = <<>>
    /\ isProcessing' = FALSE
    /\ pendingUnlock' = FALSE
    /\ UNCHANGED <<state, isPaused, disabledOptions, countdown, pendingMove, args, ret>>

Init == AppInit /\ args = NoCall /\ ret = NoCall

Next ==
    \/ StartGame
    \/ RestartCurrentDrill
    \/ GoHome
    \/ BeginDrill
    \/ CountdownStep
    \/ ClearCountdown
    \/ TogglePause
    \/ ClockTicks
    \/ HandlePieceSelect
    \/ ResolveMove
    \/ ResolveUnlock

Spec == Init /\ [][Next]_vars

(***************************************************************************)
(* SpecDrill: easy drills followed for LongDrillMoves correct selections,  *)
(* past the capacity of moveHistory, without pause and clock               *)
(***************************************************************************)
LongDrillMoves == 6

StartEasyGame ==
    /\ state.phase = "START"
    /\ startGame("EASY")

HandlePieceSelectLong == handlePieceSelect(LongDrillMoves)

NextDrill ==
    \/ StartEasyGame
    \/ RestartCurrentDrill
    \/ GoHome
    \/ BeginDrill
    \/ CountdownStep
    \/ ClearCountdown
    \/ HandlePieceSelectLong
    \/ ResolveMove
    \/ ResolveUnlock

SpecDrill == Init /\ [][NextDrill]_vars

(***************************************************************************)
(* SpecMoves: getLegalMoves and canPieceReach on bounded inputs            *)
(***************************************************************************)
\* At most this many blockers, drawn from BlockerPool.
MaxBlockers == 3
BlockerPool == {0, 9, 27, 28, 35, 63}

\* The elements of a set of numbers as an ascending sequence.
RECURSIVE SortedSeq(_)
SortedSeq(S) ==
    IF S = {} THEN <<>>
    ELSE LET m == CHOOSE x \in S : \A y \in S : x <= y
         IN  <<m>> \o SortedSeq(S \ {m})

InitMoves ==
    /\ AppInit
    /\ \E square \in Squares, type \in PieceTypes :
         \E B \in SUBSET (BlockerPool \ {square}) :
            /\ Cardinality(B) <= MaxBlockers
            /\ args = [square |-> square, type |-> type, blockers |-> SortedSeq(B)]
    /\ ret = NoCall

CallGetLegalMoves ==
    /\ ret.fn = "none"
    /\ ret' = [fn    |-> "getLegalMoves",
               moves |-> getLegalMoves(args.square, args.type, args.blockers)]
    /\ UNCHANGED <<args, appVars>>

\* canPieceReach(from, to, type, pieces) for the same piece among the pieces
\* on the blocker squares.
CallCanPieceReach ==
    /\ ret.fn = "getLegalMoves"
    /\ \E to \in Squares :
         LET pieces == [i \in 1 .. (Len(args.blockers) + 1) |->
                          [square |-> IF i = 1 THEN args.square
                                      ELSE args.blockers[i - 1]]]
         IN  ret' = [fn    |-> "canPieceReach",
                     moves |-> ret.moves,
                     to    |-> to,
                     reach |-> canPieceReach(args.square, to, args.type, pieces)]
    /\ UNCHANGED <<args, appVars>>

NextMoves == CallGetLegalMoves \/ CallCanPieceReach

SpecMoves == InitMoves /\ [][NextMoves]_vars

(***************************************************************************)
(* Move generator: properties                                              *)
(***************************************************************************)
Abs(x) == IF x < 0 THEN -x ELSE x
RowOf(sq) == sq \div BOARD_SIZE
ColOf(sq) == sq % BOARD_SIZE

DirectionsOf(type) ==
    CASE type = "ROOK"   -> Range(rookDirections)
      [] type = "BISHOP" -> Range(bishopDirections)
      [] type = "QUEEN"  -> Range(rookDirections) \cup Range(bishopDirections)
      [] OTHER           -> {}

\* `to` is k steps from `from` along direction d, every square strictly
\* between them free of blockers.
OnOpenRay(from, to, d, k, B) ==
    /\ OnBoard(RowOf(from) + k * d[1], ColOf(from) + k * d[2])
    /\ to = (RowOf(from) + k * d[1]) * BOARD_SIZE + ColOf(from) + k * d[2]
    /\ \A j \in 1 .. (k - 1) :
          ((RowOf(from) + j * d[1]) * BOARD_SIZE + ColOf(from) + j * d[2]) \notin B

\* A sliding piece reaches `to`: it lies on a ray of the piece, at or before
\* the first blocker.
SlideReaches(from, to, type, B) ==
    \E d \in DirectionsOf(type), k \in 1 .. (BOARD_SIZE - 1) :
        OnOpenRay(from, to, d, k, B)

SlideReach(from, type, B) == {to \in Squares : SlideReaches(from, to, type, B)}

\* A knight or king reaches `to`, whatever the blockers.
StepReaches(from, to, type) ==
    LET dr == Abs(RowOf(to) - RowOf(from))
        dc == Abs(ColOf(to) - ColOf(from))
    IN  IF type = "KNIGHT" THEN {dr, dc} = {1, 2}
        ELSE /\ type = "KING"
             /\ dr <= 1 /\ dc <= 1 /\ to # from

StepReach(from, type) == {to \in Squares : StepReaches(from, to, type)}

IsSliding(type) == type \in {"ROOK", "BISHOP", "QUEEN"}
MovesReturned == ret.fn = "getLegalMoves"

\* C4: for ROOK, BISHOP and QUEEN getLegalMoves returns, in each direction of
\* the piece, exactly the squares from the adjacent one up to and including
\* the first blocker (or the board edge), and none beyond it; a ROOK on 0
\* with no blockers gets the 14 squares of row 0 and column 0, a BISHOP on 0
\* gets {9,18,27,36,45,54,63}.
C4_SlidingStopsAtFirstBlocker ==
    (MovesReturned /\ IsSliding(args.type)) =>
        /\ Range(ret.moves) = SlideReach(args.square, args.type, Range(args.blockers))
        /\ (args.square = 0 /\ args.blockers = <<>> /\ args.type = "ROOK") =>
              /\ Range(ret.moves) = ((1 .. 7) \cup {8 * r : r \in 1 .. 7})
              /\ Len(ret.moves) = 14
        /\ (args.square = 0 /\ args.blockers = <<>> /\ args.type = "BISHOP") =>
              Range(ret.moves) = {9, 18, 27, 36, 45, 54, 63}

\* A bishop on 63 with blockers on 27 and 9 of its diagonal: 27 is reached,
\* 18 and 9 behind it are not.
C4_Witness ==
    /\ ret.fn = "getLegalMoves"
    /\ args = [square |-> 63, type |-> "BISHOP", blockers |-> <<9, 27>>]
    /\ ret.moves = <<54, 45, 36, 27>>

\* C5: every square getLegalMoves returns lies in [0,63], differs from the
\* input square and appears once in the result.
C5_MovesOnBoardDistinct ==
    MovesReturned =>
        /\ \A i \in DOMAIN ret.moves :
              /\ ret.moves[i] \in Squares
              /\ ret.moves[i] # args.square
        /\ \A i, j \in DOMAIN ret.moves : i # j => ret.moves[i] # ret.moves[j]

\* A king on the corner 7, five of its eight offsets off the board.
C5_Witness ==
    /\ ret.fn = "getLegalMoves"
    /\ args.type = "KING" /\ args.square = 7
    /\ ret.moves = <<6, 14, 15>>

\* C6: for KNIGHT and KING getLegalMoves returns exactly the on-board squares
\* among the 8 offsets, the same for every blocker set; a KNIGHT on 0 gets
\* {10, 17}.
C6_StepMovesIgnoreBlockers ==
    (MovesReturned /\ args.type \in {"KNIGHT", "KING"}) =>
        /\ Range(ret.moves) = StepReach(args.square, args.type)
        /\ ret.moves = getLegalMoves(args.square, args.type, <<>>)
        /\ (args.type = "KNIGHT" /\ args.square = 0) => Range(ret.moves) = {10, 17}

\* A knight on 10 with a blocker on its destination 27 and one next to it.
C6_Witness ==
    /\ ret.fn = "getLegalMoves"
    /\ args = [square |-> 10, type |-> "KNIGHT", blockers |-> <<9, 27>>]
    /\ Includes(ret.moves, 27)
    /\ Len(ret.moves) = 6

\* C7: canPieceReach(from, to, kind, pieces) is true iff `to` is among
\* getLegalMoves(from, kind, B), B the piece squares other than `from`: false
\* for to = from, true for the first blocker on a ray.
C7_CanReachIffLegalMove ==
    ret.fn = "canPieceReach" =>
        /\ ret.reach = Includes(ret.moves, ret.to)
        /\ ret.to = args.square => ~ret.reach
        /\ IsSliding(args.type) =>
              ret.reach = SlideReaches(args.square, ret.to, args.type,
                                       Range(args.blockers))
        /\ args.type \in {"KNIGHT", "KING"} =>
              ret.reach = StepReaches(args.square, ret.to, args.type)

\* The bishop on 63 reaches the blocker on 27.
C7_Witness ==
    /\ ret.fn = "canPieceReach"
    /\ args = [square |-> 63, type |-> "BISHOP", blockers |-> <<9, 27>>]
    /\ ret.to = 27
    /\ ret.reach

(***************************************************************************)
(* SpecTarget: generateTargetSquare on bounded inputs                      *)
(***************************************************************************)
\* Piece lists of up to MaxPieces pieces on distinct squares of TargetPool.
MaxPieces == 2
TargetPool == {0, 3, 11, 63}
\* The kinds a drill is made of (availableTypes of startGame).
TargetKinds == {"QUEEN", "ROOK", "BISHOP", "KNIGHT"}
\* Histories of up to MaxHistory ids among HistoryIds.
MaxHistory == 3
HistoryIds == {PieceId(0), PieceId(1)}

PieceLists ==
    UNION {{[i \in 1 .. k |-> [id |-> PieceId(i - 1), type |-> ts[i], square |-> sqs[i]]] :
              ts \in [1 .. k -> TargetKinds],
              sqs \in {f \in [1 .. k -> TargetPool] :
                          \A i, j \in 1 .. k : i # j => f[i] # f[j]}} :
           k \in 0 .. MaxPieces}

Histories == UNION {[1 .. n -> HistoryIds] : n \in 0 .. MaxHistory}

InitTarget ==
    /\ AppInit
    /\ \E pieces \in PieceLists, history \in Histories :
          args = [pieces |-> pieces, history |-> history]
    /\ ret = NoCall

CallGenerateTargetSquare ==
    /\ ret.fn = "none"
    /\ \E rnd \in Draws :
          ret' = [fn      |-> "generateTargetSquare",
                  rnd     |-> rnd,
                  weights |-> pieceWeights(args.pieces, args.history),
                  target  |-> generateTargetSquare(args.pieces, args.history, rnd)]
    /\ UNCHANGED <<args, appVars>>

NextTarget == CallGenerateTargetSquare

SpecTarget == InitTarget /\ [][NextTarget]_vars

(***************************************************************************)
(* Target selector: properties                                             *)
(***************************************************************************)
TargetReturned == ret.fn = "generateTargetSquare"

IsEmptySquare(pieces, sq) == \A i \in DOMAIN pieces : pieces[i].square # sq

OtherSquares(pieces, i) ==
    {pieces[j].square : j \in DOMAIN pieces} \ {pieces[i].square}

\* Piece i can move to the empty square sq.
ReachesEmpty(pieces, i, sq) ==
    /\ IsEmptySquare(pieces, sq)
    /\ IF IsSliding(pieces[i].type)
       THEN SlideReaches(pieces[i].square, sq, pieces[i].type, OtherSquares(pieces, i))
       ELSE StepReaches(pieces[i].square, sq, pieces[i].type)

\* The pieces that can move to sq: its reachability count is their number.
Reachers(pieces, sq) == {i \in DOMAIN pieces : ReachesEmpty(pieces, i, sq)}

\* C1: for piece lists on distinct squares and any history,
\* generateTargetSquare returns -1 or a square no piece occupies.
C1_TargetNotOccupied ==
    TargetReturned =>
        \/ ret.target = NO_TARGET
        \/ ret.target \in Squares /\ IsEmptySquare(args.pieces, ret.target)

\* A rook on 11 under a knight on 3: the rook's first legal move, 3, is
\* occupied, and the target is the first empty one, 19.
C1_Witness ==
    /\ TargetReturned
    /\ args.pieces = <<[id |-> "p-0", type |-> "ROOK", square |-> 11],
                       [id |-> "p-1", type |-> "KNIGHT", square |-> 3]>>
    /\ args.history = <<>>
    /\ ret.rnd.num = 0
    /\ ret.target = 19

\* C2: whenever some empty square is reachable by exactly one piece,
\* generateTargetSquare returns a square reachable by exactly one piece, on
\* every branch, and also when every such square belongs to the piece that
\* made the last two moves.
C2_UniqueTargetReturned ==
    TargetReturned =>
        \/ Cardinality(Reachers(args.pieces, ret.target)) = 1
        \/ \A sq \in Squares : Cardinality(Reachers(args.pieces, sq)) # 1

\* A knight on 0 and a queen on 3 that made the last two moves: 10 and 17
\* are reached by both, every unique target is the queen's, all weights in
\* the pool are 0, and a square only the queen reaches is returned.
C2_Witness ==
    /\ TargetReturned
    /\ args.pieces = <<[id |-> "p-0", type |-> "KNIGHT", square |-> 0],
                       [id |-> "p-1", type |-> "QUEEN", square |-> 3]>>
    /\ args.history = <<"p-1", "p-1">>
    /\ Reachers(args.pieces, ret.target) = {2}

\* The union of the valid move sets.
ValidUnion(pieces) == {sq \in Squares : Reachers(pieces, sq) # {}}

\* C3: generateTargetSquare returns -1 iff every piece's valid move set is
\* empty; without unique targets and with a non-empty union the result is a
\* member of the union, and every member is the result of some draw.
C3_SentinelIffNoValidMove ==
    TargetReturned =>
        /\ (ret.target = NO_TARGET) = (\A i \in DOMAIN args.pieces :
                                          validMoves(args.pieces, i) = <<>>)
        /\ \/ ret.target # NO_TARGET /\ Reachers(args.pieces, ret.target) # {}
           \/ ret.target = NO_TARGET /\ ValidUnion(args.pieces) = {}
        /\ \/ ret.target = NO_TARGET
           \/ Cardinality(Reachers(args.pieces, ret.target)) = 1
           \/ \E sq \in Squares : Cardinality(Reachers(args.pieces, sq)) = 1
           \/ LET n == Len(Concat(pieceMoves(args.pieces)))
              IN  \A m \in ValidUnion(args.pieces) :
                     \E k \in 0 .. (n - 1) :
                        generateTargetSquare(args.pieces, args.history,
                            [num |-> k, den |-> n, roundsUp |-> FALSE]) = m

\* Bishops on the corners 0 and 63: each reaches the six squares between them
\* and nothing else, so no square is a unique target.
C3_Witness ==
    /\ TargetReturned
    /\ args.pieces = <<[id |-> "p-0", type |-> "BISHOP", square |-> 0],
                       [id |-> "p-1", type |-> "BISHOP", square |-> 63]>>
    /\ ret.target \in {9, 18, 27, 36, 45, 54}
    /\ ret.rnd.num = 1

\* Occurrences of id in history.
RECURSIVE Occurrences(_, _)
Occurrences(history, id) ==
    IF history = <<>> THEN 0
    ELSE (IF Head(history) = id THEN 1 ELSE 0) + Occurrences(Tail(history), id)

IsLast(history, id) == history # <<>> /\ history[Len(history)] = id
LastTwoAre(history, id) ==
    /\ Len(history) >= 2
    /\ history[Len(history)] = id
    /\ history[Len(history) - 1] = id

\* max(0, 10 - 3c - 6l), in tenths.
ClampedWeight(c, l) == IF 10 - 3 * c - 6 * l > 0 THEN 10 - 3 * c - 6 * l ELSE 0

\* C9: the weight of a piece is max(0, 1.0 - 0.3c - 0.6l), c the occurrences
\* of its id in history and l = 1 iff it is the last entry; it is 0 when the
\* last two entries are its id; every weight is in [0, 1.0].
C9_WeightFormula ==
    TargetReturned =>
        \A i \in DOMAIN args.pieces :
            LET id == args.pieces[i].id
                c  == Occurrences(args.history, id)
                l  == IF IsLast(args.history, id) THEN 1 ELSE 0
            IN  /\ ret.weights[i] = ClampedWeight(c, l)
                /\ LastTwoAre(args.history, id) => ret.weights[i] = 0
                /\ ret.weights[i] \in 0 .. 10

\* History p-1, p-0, p-1 with pieces p-0 and p-1: weights 0.7 and
\* max(0, 1.0 - 0.6 - 0.6) = 0.
C9_Witness ==
    /\ TargetReturned
    /\ Len(args.pieces) = 2
    /\ args.history = <<"p-1", "p-0", "p-1">>
    /\ ret.weights = <<7, 0>>

\* The weighted pool generateTargetSquare builds for the call's arguments.
ArgsPool ==
    LET moveLists == pieceMoves(args.pieces)
    IN  weightedPoolOf(args.pieces, moveLists, uniqueTargetsOf(moveLists),
                       args.history)

\* C11, as stated: each pool entry carries the weight of the one piece that
\* can reach its square, and when the total pool weight is positive the
\* returned square is never one whose sole reacher has weight 0.
C11_NeverZeroWeightTarget ==
    TargetReturned =>
        LET pool == ArgsPool
        IN  /\ \A k \in DOMAIN pool :
                 \E i \in DOMAIN args.pieces :
                    /\ Reachers(args.pieces, pool[k].sq) = {i}
                    /\ pool[k].weight = ret.weights[i]
            /\ (pool # <<>> /\ SumWeights(pool) > 0) =>
                 \A i \in DOMAIN args.pieces :
                    Reachers(args.pieces, ret.target) = {i} => ret.weights[i] > 0

(***************************************************************************)
(* SpecWalk: the weighted draw (part_003:146-152) on bounded pools         *)
(***************************************************************************)
\* Pools of up to MaxPool entries on distinct squares.
MaxPool == 3
PoolSquares == <<11, 3, 17, 40>>

\* The weights a piece can have, in tenths: 1.0, 0.7, 0.4, 0.1 and 0.
WeightValues == {0, 1, 4, 7, 10}

Pools ==
    UNION {{[k \in 1 .. n |-> [sq |-> PoolSquares[k], weight |-> w[k]]] :
               w \in [1 .. n -> WeightValues]} : n \in 1 .. MaxPool}

\* Math.random() for a pool of total weight t: j/t for each j < t, so that
\* random is j tenths, and the draw next to 1 that leaves a remainder.
WalkDraws(t) == DrawsOf(t)

\* The draw is made only when totalPoolWeight > 0.
InitWalk ==
    /\ AppInit
    /\ ret = NoCall
    /\ \E pool \in Pools :
          /\ SumWeights(pool) > 0
          /\ \E rnd \in WalkDraws(SumWeights(pool)) :
                args = [pool |-> pool, rnd |-> rnd]

CallWeightedDraw ==
    /\ ret = NoCall
    /\ ret' = [fn     |-> "weightedDraw",
               target |-> weightedDraw(args.pool, SumWeights(args.pool), args.rnd)]
    /\ UNCHANGED <<appVars, args>>

NextWalk == CallWeightedDraw

SpecWalk == InitWalk /\ [][NextWalk]_vars

DrawReturned == ret.fn = "weightedDraw"

\* The cumulative weight of the first k pool entries.
Cumulative(pool, k) == SumRange(pool, 1, k)

\* The number of draws j/t, j < t, for which the entry on sq is returned.
DrawsSelecting(pool, sq) ==
    LET t == SumWeights(pool)
    IN  Cardinality({j \in 0 .. (t - 1) :
                        weightedDraw(pool, t, [num |-> j, den |-> t, roundsUp |-> FALSE]) = sq})

C13_RemainderReturnsFinalEntry ==
    (DrawReturned /\ args.rnd.roundsUp) =>
        ret.target = args.pool[Len(args.pool)].sq

(***************************************************************************)
(* Properties of the App (Spec)                                            *)
(***************************************************************************)
\* The step is handlePieceSelect getting past its guard: only it sets
\* isProcessing.
SelectionStep == ~isProcessing /\ isProcessing'

\* The step is the 500 ms timeout of an accepted selection.
ResolutionStep == pendingMove # <<>> /\ pendingMove' = <<>>

\* The pieces of kind K that canPieceReach finds to reach the target.
KindReaches(K) ==
    {i \in DOMAIN state.pieces :
        /\ state.pieces[i].type = K
        /\ canPieceReach(state.pieces[i].square, state.targetSquare,
                         state.pieces[i].type, state.pieces)}

FirstOf(S) == CHOOSE i \in S : \A j \in S : i <= j

\* C8: a selection of kind K, made during PLAYING, is marked correct iff
\* some piece of kind K can reach the target; then the first such piece in
\* list order is the one scheduled to move, it is the only piece the
\* resolution moves, and no strike is counted; otherwise strikes goes up by 1
\* and no move is scheduled.
C8_AcceptedIffKindReaches ==
    [][ /\ SelectionStep =>
            LET K     == moveFeedback'[1].type
                found == KindReaches(K)
            IN  /\ state.phase = "PLAYING"
                /\ (moveFeedback'[1].status = "correct") <=> (found # {})
                /\ found # {} =>
                     /\ pendingMove' = <<[id     |-> state.pieces[FirstOf(found)].id,
                                          square |-> state.pieces[FirstOf(found)].square]>>
                     /\ state' = state
                /\ found = {} =>
                     /\ state'.strikes = state.strikes + 1
                     /\ pendingMove' = <<>>
        /\ ResolutionStep =>
            \A i \in DOMAIN state.pieces :
               state'.pieces[i].square # state.pieces[i].square
                  => state.pieces[i].id = pendingMove[1].id
      ]_vars

\* Hard drill, queen p-0 on 19 and target 11: QUEEN was selected, marked
\* correct, and p-0 is waiting to be moved.
C8_Witness ==
    /\ state.phase = "PLAYING"
    /\ Len(state.pieces) = 4
    /\ state.targetSquare = 11
    /\ moveFeedback = <<[type |-> "QUEEN", status |-> "correct"]>>
    /\ pendingMove = <<[id |-> "p-0", square |-> 19]>>
    /\ isProcessing

\* Piece i is the one piece with sq among its valid moves.
SoleReacherIn(moveLists, i, sq) ==
    {j \in DOMAIN moveLists : Includes(moveLists[j], sq)} = {i}

SoleReacher(pieces, i, sq) == SoleReacherIn(pieceMoves(pieces), i, sq)

\* The weighted pool generateTargetSquare builds from the current pieces and
\* history.
PoolOf(moveLists) ==
    weightedPoolOf(state.pieces, moveLists, uniqueTargetsOf(moveLists),
                   state.moveHistory)

CurrentPool == PoolOf(pieceMoves(state.pieces))

\* The id the last two history entries share, if they do.
LastTwoEqual ==
    /\ Len(state.moveHistory) >= 2
    /\ state.moveHistory[Len(state.moveHistory)]
          = state.moveHistory[Len(state.moveHistory) - 1]

\* C10, as stated: when the last two history entries are the id of piece p,
\* the target is not a square only p can reach, and p is not the piece
\* scheduled to resolve the next accepted move.
C10_NoThirdConsecutiveAsk ==
    \A i \in DOMAIN state.pieces :
        (/\ state.targetSquare \in Squares
         /\ LastTwoAre(state.moveHistory, state.pieces[i].id))
        => /\ ~SoleReacher(state.pieces, i, state.targetSquare)
           /\ pendingMove = <<>> \/ pendingMove[1].id # state.pieces[i].id

\* C10, amended: when the last two history entries are the id of piece p, a
\* target only p can reach comes from a fallback alone: every entry of the
\* weighted pool has weight 0 (the uniform draw among the unique targets), or
\* the target is weightedPool[0], the value returned when the walk selects
\* nothing.  The weighted walk itself never selects a square of p.
C10_ThirdAskOnlyByFallback ==
    (state.targetSquare \in Squares /\ LastTwoEqual) =>
        LET moveLists == pieceMoves(state.pieces)
            pool      == PoolOf(moveLists)
        IN  \A i \in DOMAIN state.pieces :
                (/\ LastTwoAre(state.moveHistory, state.pieces[i].id)
                 /\ SoleReacherIn(moveLists, i, state.targetSquare))
                => \/ SumWeights(pool) = 0
                   \/ state.targetSquare = pool[1].sq

\* Easy drill, queen p-0 moved 19 -> 11 -> 3 beside the knight on 0: the
\* knight's squares 10 and 17 are the queen's too, every unique target is the
\* queen's, and the queen is asked a third time, for 11.
C10_Witness ==
    /\ state.phase = "PLAYING"
    /\ Len(state.pieces) = 2
    /\ state.pieces[1] = [id |-> "p-0", type |-> "QUEEN", square |-> 3]
    /\ state.pieces[2] = [id |-> "p-1", type |-> "KNIGHT", square |-> 0]
    /\ state.moveHistory = <<"p-0", "p-0">>
    /\ state.targetSquare = 11
    /\ SumWeights(CurrentPool) = 0
    /\ SoleReacher(state.pieces, 1, 11)

\* The last five entries of a sequence.
LastFive(seq) ==
    IF Len(seq) > 5 THEN SubSeq(seq, Len(seq) - 4, Len(seq)) ELSE seq

Min(a, b) == IF a < b THEN a ELSE b

\* A step that starts a drill: startGame's fresh state.
DrillStartStep ==
    /\ state'.phase = "OBSERVING"
    /\ state'.correctMoves = 0
    /\ state'.moveHistory = <<>>
    /\ state' # state

C15_DistinctSquaresOnBoard ==
    /\ \A i, j \in DOMAIN state.pieces :
          i # j => state.pieces[i].square # state.pieces[j].square
    /\ \A i \in DOMAIN state.pieces : state.pieces[i].square \in Squares

\* C16: in every reachable state of the App every id in moveHistory is the id
\* of a piece of the current piece set.
C16_HistoryIdsArePresent ==
    \A k \in DOMAIN state.moveHistory :
       \E i \in DOMAIN state.pieces : state.pieces[i].id = state.moveHistory[k]

\* The step is handlePieceSelect accepting a selection: a resolution is
\* scheduled.
AcceptedSelectionStep == pendingMove = <<>> /\ pendingMove' # <<>>

\* The pieces whose square the step changes.
MovedPieces ==
    {i \in DOMAIN state.pieces :
        \/ i \notin DOMAIN state'.pieces
        \/ state'.pieces[i].square # state.pieces[i].square}

\* C17: an accepted selection schedules the piece found to reach the target;
\* the target and the pieces stay as they were at the selection until the
\* resolution; the resolution changes the square of exactly that piece to the
\* target, leaves the other squares and every id and kind alone, and appends
\* the piece's id to moveHistory.
C17_MovesExactlyTheFoundPiece ==
    [][ /\ AcceptedSelectionStep =>
            /\ state' = state
            /\ \E i \in DOMAIN state.pieces :
                 /\ state.pieces[i].id = pendingMove'[1].id
                 /\ state.pieces[i].square = pendingMove'[1].square
                 /\ canPieceReach(state.pieces[i].square, state.targetSquare,
                                  state.pieces[i].type, state.pieces)
        /\ (pendingMove # <<>> /\ pendingMove' = pendingMove) =>
            /\ state'.targetSquare = state.targetSquare
            /\ state'.pieces = state.pieces
        /\ ResolutionStep =>
            /\ DOMAIN state'.pieces = DOMAIN state.pieces
            /\ \E i \in DOMAIN state.pieces :
                 /\ MovedPieces = {i}
                 /\ state.pieces[i].id = pendingMove[1].id
                 /\ state.pieces[i].square = pendingMove[1].square
                 /\ state'.pieces[i].square = state.targetSquare
                 /\ state.targetSquare \in Squares
            /\ \A i \in DOMAIN state.pieces :
                 /\ state'.pieces[i].id = state.pieces[i].id
                 /\ state'.pieces[i].type = state.pieces[i].type
            /\ state'.moveHistory
                  = LastFive(Append(state.moveHistory, pendingMove[1].id))
      ]_vars

\* No reachable state of the App presents the no-target sentinel: the pieces
\* startGame places (2 to 4 of distinct kinds on distinct squares) always
\* leave some piece a valid move.
SentinelNeverPresented == state.targetSquare # NO_TARGET

\* The drill state as startGame leaves it.
FreshDrill(st) ==
    /\ st.phase = "OBSERVING"
    /\ st.moveHistory = <<>>
    /\ st.score = 0
    /\ st.strikes = 0
    /\ st.timeLeft = START_TIME
    /\ st.targetSquare = Null
    /\ Len(st.pieces) = pieceCountOf(st.difficulty)
    /\ Len(st.pieces) \in {2, 3, 4}
    /\ \A i \in DOMAIN st.pieces : st.pieces[i].square \in Squares
    /\ \A i, j \in DOMAIN st.pieces :
          i # j => st.pieces[i].square # st.pieces[j].square

\* C19: every startGame leaves a fresh drill state (phase OBSERVING, empty
\* history, score 0, strikes 0, timeLeft 120, no target, 2, 3 or 4 pieces on
\* pairwise distinct squares of the board), and until the countdown ends the
\* observation phase only another startGame changes it.
C19_FreshUntilCountdownEnds ==
    /\ [](state.phase = "OBSERVING" => FreshDrill(state))
    /\ [][ (state.phase = "OBSERVING" /\ state'.phase = "OBSERVING")
              => (state' = state \/ DrillStartStep) ]_vars

\* What a piece selection does to the state: it schedules a resolution or an
\* unlock, shows a feedback, disables an option or counts a strike.
SelectionEffect ==
    \/ pendingMove' # pendingMove /\ pendingMove' # <<>>
    \/ pendingUnlock' /\ ~pendingUnlock
    \/ moveFeedback' # moveFeedback /\ moveFeedback' # <<>>
    \/ ~(disabledOptions' \subseteq disabledOptions)
    \/ state'.strikes > state.strikes

\* C20: from a piece selection to its 400/500 ms timeout the drill keeps
\* isProcessing true, and while it is true no step has the effect of a
\* selection; so at most one resolution is scheduled at a time, and the score
\* only goes up by 10, at a resolution.
C20_OneResolutionPerTarget ==
    /\ []((state.phase = "PLAYING" /\ (pendingMove # <<>> \/ pendingUnlock))
             => isProcessing)
    /\ [](Len(pendingMove) <= 1)
    /\ [][ /\ isProcessing => ~SelectionEffect
           /\ AcceptedSelectionStep => state' = state
           /\ state'.score > state.score =>
                 (ResolutionStep /\ state'.score = state.score + 10)
         ]_vars

\* Easy drill, QUEEN was accepted and its resolution is pending: the KNIGHT
\* button would take a selection but for the lock.
C20_Witness ==
    /\ state.phase = "PLAYING"
    /\ isProcessing
    /\ ~isPaused
    /\ pendingMove # <<>>
    /\ moveFeedback = <<[type |-> "QUEEN", status |-> "correct"]>>
    /\ isUsedInSession("KNIGHT")
    /\ "KNIGHT" \notin disabledOptions

\* The step by which the countdown reaches 0.
CountdownCompletes == countdown = 1 /\ countdown' = 0

\* The phase changes of the drill: PLAYING is entered from OBSERVING when the
\* countdown reaches 0, with lastMoveLine null and a target generated from
\* the pieces and history of the state; GAMEOVER is entered from PLAYING;
\* a countdown completion in another phase changes nothing.
PhaseOrderStep ==
    /\ (state.phase # "PLAYING" /\ state'.phase = "PLAYING") =>
          /\ state.phase = "OBSERVING"
          /\ CountdownCompletes
          /\ \E rnd \in DrillDraws :
                state' = [state EXCEPT
                            !.phase = "PLAYING",
                            !.targetSquare =
                                generateTargetSquare(state.pieces,
                                                     state.moveHistory, rnd),
                            !.lastMoveLine = <<>>]
    /\ (state.phase # "GAMEOVER" /\ state'.phase = "GAMEOVER") =>
          state.phase = "PLAYING"
    /\ (state.phase # "OBSERVING" /\ state'.phase = "OBSERVING") =>
          FreshDrill(state')
    /\ (CountdownCompletes /\ state.phase # "OBSERVING") => state' = state

PhaseOrder == [][PhaseOrderStep]_vars

\* C21: phases follow START -> OBSERVING -> PLAYING -> GAMEOVER: PLAYING is
\* entered only from OBSERVING and only when the countdown reaches 0, the
\* first target being generated from the positions startGame placed, with
\* an empty history and lastMoveLine null; GAMEOVER is entered only from
\* PLAYING; a countdown completion in another phase changes nothing.
C21_PhasesInOrder ==
    [][ /\ PhaseOrderStep
        /\ (state.phase # "PLAYING" /\ state'.phase = "PLAYING") =>
              FreshDrill(state)
      ]_vars

\* The squares of the pieces, in list order.
PieceSquares(st) == [i \in DOMAIN st.pieces |-> st.pieces[i].square]

\* C22: once the phase is GAMEOVER, score, correctMoves, the streaks, the
\* piece squares, moveHistory and targetSquare stay as they are for as long
\* as the phase is GAMEOVER.
C22_GameOverFreezesResult ==
    [][ (state.phase = "GAMEOVER" /\ state'.phase = "GAMEOVER") =>
            /\ state'.score = state.score
            /\ state'.correctMoves = state.correctMoves
            /\ state'.currentStreak = state.currentStreak
            /\ state'.bestStreak = state.bestStreak
            /\ PieceSquares(state') = PieceSquares(state)
            /\ state'.moveHistory = state.moveHistory
            /\ state'.targetSquare = state.targetSquare
      ]_vars

\* C23: while the drill is paused, timeLeft, score, strikes, the piece
\* squares, moveHistory and targetSquare do not change.
C23_PauseFreezesDrill ==
    [][ (isPaused /\ isPaused') =>
            /\ state'.timeLeft = state.timeLeft
            /\ state'.score = state.score
            /\ state'.strikes = state.strikes
            /\ PieceSquares(state') = PieceSquares(state)
            /\ state'.moveHistory = state.moveHistory
            /\ state'.targetSquare = state.targetSquare
      ]_vars

\* C24: whenever the phase is PLAYING, the drill is not paused and no
\* selection is being processed, some kind with a piece that can reach the
\* target has its option button enabled.
C24_CorrectAnswerSelectable ==
    (state.phase = "PLAYING" /\ ~isPaused /\ ~isProcessing) =>
        \E type \in OptionTypes :
           /\ KindReaches(type) # {}
           /\ isUsedInSession(type)
           /\ ~isDisabled(type)

\* C25: whenever the phase is PLAYING, targetSquare is the sentinel -1 or a
\* square of the board that no piece stands on and that some piece of the
\* current list can reach; it is never null.
C25_TargetEmptyAndReachable ==
    state.phase = "PLAYING" =>
        \/ state.targetSquare = NO_TARGET
        \/ /\ state.targetSquare \in Squares
           /\ \A i \in DOMAIN state.pieces :
                 state.pieces[i].square # state.targetSquare
           /\ \E i \in DOMAIN state.pieces :
                 canPieceReach(state.pieces[i].square, state.targetSquare,
                               state.pieces[i].type, state.pieces)

\* Hard drill in play after an accepted move: the queen went from 19 to 11
\* and a next target is shown.
C25_Witness ==
    /\ state.phase = "PLAYING"
    /\ Len(state.pieces) = 4
    /\ state.correctMoves = 1
    /\ state.targetSquare \in Squares
    /\ \E i \in DOMAIN state.pieces :
          state.pieces[i].type = "QUEEN" /\ state.pieces[i].square = 11

\* The kinds and the ids of the pieces, in list order.
PieceKinds(st) == [i \in DOMAIN st.pieces |-> st.pieces[i].type]
PieceIds(st) == [i \in DOMAIN st.pieces |-> st.pieces[i].id]

\* C26: the pieces of a drill have pairwise distinct kinds among QUEEN, ROOK,
\* BISHOP, KNIGHT and the ids p-0 .. p-(n-1); kinds and ids change only when
\* a drill is started; so at most one piece has the kind of a selection.
C26_DistinctKindsFixedIds ==
    /\ [](/\ \A i \in DOMAIN state.pieces :
                /\ state.pieces[i].type \in OptionTypes
                /\ state.pieces[i].id = PieceId(i - 1)
          /\ \A i, j \in DOMAIN state.pieces :
                i # j => state.pieces[i].type # state.pieces[j].type
          /\ \A type \in OptionTypes :
                Cardinality({i \in DOMAIN state.pieces :
                                state.pieces[i].type = type}) <= 1)
    /\ [][ \/ /\ PieceKinds(state') = PieceKinds(state)
              /\ PieceIds(state') = PieceIds(state)
           \/ DrillStartStep
         ]_vars

\* Hard drill in play with two moves resolved: four pieces of four kinds.
C26_Witness ==
    /\ state.phase = "PLAYING"
    /\ Len(state.pieces) = 4
    /\ state.correctMoves = 2
    /\ {state.pieces[i].type : i \in DOMAIN state.pieces} = OptionTypes

(***************************************************************************)
(* SpecPlacement: generateTargetSquare on the placements of a drill        *)
(***************************************************************************)
\* The placements followed crowd a corner of the board: the squares of the
\* first CornerSide rows and columns.
CornerSide == 3
CornerSquares == {r * BOARD_SIZE + c : r, c \in 0 .. (CornerSide - 1)}

\* What startGame can place: 2, 3 or 4 pieces, their kinds the first entries
\* of a permutation of availableTypes, on pairwise distinct squares, with ids
\* p-0 .. p-(n-1).  The pieces are listed in the order of their squares:
\* every assignment of kinds to squares is among them.
DrillPlacements ==
    UNION {{[i \in 1 .. k |-> [id |-> PieceId(i - 1), type |-> ts[i], square |-> sqs[i]]] :
              ts \in {f \in [1 .. k -> Range(availableTypes)] :
                         \A i, j \in 1 .. k : i # j => f[i] # f[j]},
              sqs \in {f \in [1 .. k -> CornerSquares] :
                          \A i, j \in 1 .. k : i < j => f[i] < f[j]}} :
           k \in {2, 3, 4}}

\* Histories of a drill: none, a piece moved twice in a row, a mixed one.
PlacementHistories ==
    {<<>>, <<PieceId(0), PieceId(0)>>, <<PieceId(1), PieceId(0), PieceId(1)>>}

InitPlacement ==
    /\ AppInit
    /\ \E pieces \in DrillPlacements, history \in PlacementHistories :
          args = [pieces |-> pieces, history |-> history]
    /\ ret = NoCall

SpecPlacement == InitPlacement /\ [][NextTarget]_vars

\* C27: on every placement a drill can produce and every history,
\* generateTargetSquare returns a square of the board, never the sentinel -1.
C27_NoSentinelOnDrillPlacements ==
    TargetReturned => (ret.target # NO_TARGET /\ ret.target \in Squares)

\* The queen in the corner is shut in by the rook, the bishop and the knight
\* around it, and a target is returned all the same.
C27_Witness ==
    /\ TargetReturned
    /\ Len(args.pieces) = 4
    /\ args.pieces[1].type = "QUEEN" /\ args.pieces[1].square = 0
    /\ {args.pieces[i].square : i \in 2 .. 4} = {1, 8, 9}
    /\ validMoves(args.pieces, 1) = <<>>
    /\ ret.target \in Squares

\* C28: strikes stays within 0 .. 5 and timeLeft within 0 .. 120; during
\* PLAYING strikes is below 5 and timeLeft at least 1: the step that brings
\* strikes to 5 and the step that brings timeLeft to 0 set the phase to
\* GAMEOVER themselves.
C28_StrikesAndClockInRange ==
    /\ [](/\ state.strikes \in 0 .. MAX_STRIKES
          /\ state.timeLeft \in 0 .. START_TIME
          /\ state.phase = "PLAYING" =>
                (state.strikes < MAX_STRIKES /\ state.timeLeft >= 1))
    /\ [][ /\ (state'.strikes = MAX_STRIKES /\ state.strikes # MAX_STRIKES) =>
                (state.phase = "PLAYING" /\ state'.phase = "GAMEOVER")
           /\ (state'.timeLeft = 0 /\ state.timeLeft # 0) =>
                (state.phase = "PLAYING" /\ state'.phase = "GAMEOVER")
         ]_vars

\* The clock ran out on a drill with a strike counted.
C28_Witness ==
    /\ state.phase = "GAMEOVER"
    /\ state.timeLeft = 0
    /\ state.strikes \in 1 .. (MAX_STRIKES - 1)

\* A fifth strike ended the drill with time left.
FifthStrikeEndsDrill ==
    /\ state.phase = "GAMEOVER"
    /\ state.strikes = MAX_STRIKES
    /\ state.timeLeft >= 1

\* The step is handlePieceSelect rejecting a selection: an unlock is
\* scheduled.
RejectedSelectionStep == ~pendingUnlock /\ pendingUnlock'

\* C29: an incorrect selection (no piece of the selected kind reaches the
\* target) adds exactly 1 to strikes and sets currentStreak to 0; the piece
\* squares, targetSquare, moveHistory, score, correctMoves, bestStreak and
\* timeLeft stay as they are.
C29_IncorrectSelectionFrame ==
    [][ RejectedSelectionStep =>
            /\ KindReaches(moveFeedback'[1].type) = {}
            /\ moveFeedback'[1].status = "incorrect"
            /\ state'.strikes = state.strikes + 1
            /\ state'.currentStreak = 0
            /\ PieceSquares(state') = PieceSquares(state)
            /\ state'.targetSquare = state.targetSquare
            /\ state'.moveHistory = state.moveHistory
            /\ state'.score = state.score
            /\ state'.correctMoves = state.correctMoves
            /\ state'.bestStreak = state.bestStreak
            /\ state'.timeLeft = state.timeLeft
      ]_vars

\* An incorrect selection after an accepted move: the streak of 1 is back
\* at 0 and the best streak is kept.
C29_Witness ==
    /\ pendingUnlock
    /\ moveFeedback # <<>>
    /\ moveFeedback[1].status = "incorrect"
    /\ state.strikes = 1
    /\ state.correctMoves = 1
    /\ state.currentStreak = 0
    /\ state.bestStreak = 1
    /\ state.score = 10

=============================================================================
